---- MODULE Spec2Model ----
(***************************************************************************)
(* A model of main.js: class App (constructor, init, setupScene,           *)
(* createObjects, animate) and the window.onload handler that builds it.   *)
(*                                                                         *)
(* The host (browser) is modelled by its window dimensions, its device     *)
(* pixel ratio, the document body's appended children and the queue of     *)
(* pending repaint callbacks.  JavaScript tasks run to completion, so the  *)
(* host changes the window only while no task of the page is running.      *)
(*                                                                         *)
(* Every call into the rendering library or the DOM may throw.  A throw    *)
(* is not caught anywhere in main.js, so it ends the running task with     *)
(* whatever assignments were made before it.                               *)
(***************************************************************************)
EXTENDS Integers, Sequences, FiniteSets, TLC

\* ------------------------------------------------------------------ bounds

\* window.innerWidth and window.innerHeight range over 1..MaxWin
MaxWin == 2
\* window.devicePixelRatio ranges over 0..MaxDpr, 0 standing for a falsy value
MaxDpr == 2
\* number of animate() executions explored
MaxFrames == 3

\* ------------------------------------------------------- program constants

\* rotation is counted in hundredths of a radian: "+= 0.01" adds one unit
RotStep == 1
Near == -10000
Far == 10000
BoxSize == 100
Green == 65280
\* camera.position.z = 2.5, as a fraction
CameraZ == [num |-> 5, den |-> 2]
\* THREE.Color(0.0)
Black == [gray |-> 0]
CanvasId == "scene"

\* library and DOM calls of setupScene, in program order:
\*  1 new OrthographicCamera  2 new Scene  3 new Color  4 scene.add(camera)
\*  5 new WebGLRenderer  6 setPixelRatio  7 setSize  8 setAttribute
\*  9 appendChild
SetupCalls == 9
\* library calls of createObjects, in program order:
\*  1 new BoxGeometry  2 new MeshBasicMaterial  3 new Mesh  4 position.set
\*  5 scene.add(cube)
CreateCalls == 5

\* the value of a handle that refers to no object
NULL == [null |-> TRUE]

WinSizes == 1..MaxWin
PixelRatios == 0..MaxDpr

\* ------------------------------------------------------------------- state

VARIABLES
    innerWidth,         \* window.innerWidth
    innerHeight,        \* window.innerHeight
    devicePixelRatio,   \* window.devicePixelRatio (0: falsy)
    pc,                 \* where the page's script is
    camera,             \* this.camera
    scene,              \* this.scene
    renderer,           \* this.renderer
    cube,               \* this.cube
    body,               \* ids of the elements appended to document.body
    rafPending,         \* repaint callbacks requested and not yet invoked
    scheduled,          \* requestAnimationFrame calls made so far
    frames,             \* executions of animate() begun so far
    renderLog,          \* the renderer.render calls issued, in order
    uncaught            \* functions out of which an exception escaped

vars == <<innerWidth, innerHeight, devicePixelRatio, pc, camera, scene,
          renderer, cube, body, rafPending, scheduled, frames, renderLog,
          uncaught>>

window == <<innerWidth, innerHeight, devicePixelRatio>>
handles == <<camera, scene, renderer, cube>>

\* ----------------------------------------------------------------- helpers

\* n / 2 as a fraction (window.innerWidth / 2 is a floating-point division)
Half(n) == [num |-> n, den |-> 2]

\* call number i of a function that throws at call f (0: no call throws)
\* has returned
Done(f, i) == f = 0 \/ f > i

\* new THREE.OrthographicCamera(0, w, 0, h, -10000, 10000); position.z = 2.5
NewCamera(w, h) ==
    [left |-> 0, right |-> w, top |-> 0, bottom |-> h,
     near |-> Near, far |-> Far, z |-> CameraZ]

\* a scene.add call that was forgotten
SceneAddForgotten(s, obj) == s

\* Object3D.add as used on the scene: the object becomes the last child
SceneAdd(s, obj) ==
    [s EXCEPT !.children = Append(SelectSeq(@, LAMBDA c : c # obj), obj)]

\* window.devicePixelRatio || 1
PixelRatio(dpr) == IF dpr = 0 THEN 1 ELSE dpr

\* setSize(window.innerHeight, window.innerWidth): the arguments swapped
NewRendererSwapped(w, h, dpr, f) ==
    [pixelRatio |-> IF Done(f, 6) THEN PixelRatio(dpr) ELSE 1,
     width |-> IF Done(f, 7) THEN h ELSE 0,
     height |-> IF Done(f, 7) THEN w ELSE 0,
     domElement |-> [id |-> IF Done(f, 8) THEN CanvasId ELSE ""]]

\* new THREE.WebGLRenderer(...), then setPixelRatio, setSize(w, h) and
\* domElement.setAttribute("id", "scene"), as far as setupScene gets when it
\* throws at call f.  A renderer not yet sized has width and height 0.
NewRenderer(w, h, dpr, f) ==
    [pixelRatio |-> IF Done(f, 6) THEN PixelRatio(dpr) ELSE 1,
     width |-> IF Done(f, 7) THEN w ELSE 0,
     height |-> IF Done(f, 7) THEN h ELSE 0,
     domElement |-> [id |-> IF Done(f, 8) THEN CanvasId ELSE ""]]

\* new THREE.Mesh(geometry, material); position.set(w / 2, h / 2, 0)
NewCube(w, h, placed) ==
    [geometry |-> <<BoxSize, BoxSize, BoxSize>>,
     material |-> [color |-> Green, wireframe |-> TRUE],
     position |-> IF placed THEN <<Half(w), Half(h), Half(0)>>
                            ELSE <<Half(0), Half(0), Half(0)>>,
     rotation |-> [x |-> 0, y |-> 0]]

\* rotation.x incremented twice, rotation.y never
RotateOnlyX(c) ==
    [c EXCEPT !.rotation = [x |-> @.x + RotStep + RotStep, y |-> @.y]]

\* the increments applied to position instead of rotation
RotatePosition(c) ==
    [c EXCEPT !.position = <<Half(@[1].num + RotStep), Half(@[2].num + RotStep),
                             @[3]>>]

\* this.cube.rotation.x += 0.01; this.cube.rotation.y += 0.01
Rotate(c) ==
    [c EXCEPT !.rotation = [x |-> @.x + RotStep, y |-> @.y + RotStep]]

\* animate() without its requestAnimationFrame call
RequestAnimationFrameMissing(q) == q

\* animate() with its requestAnimationFrame call made twice
RequestAnimationFrameTwice(q) == q + 2

\* requestAnimationFrame(() => this.animate()) on a queue of q callbacks
RequestAnimationFrame(q) == q + 1

\* init() without its createObjects() call
InitNextSkipsCreate(step) ==
    CASE step = "setupScene" -> "animate"
      [] OTHER -> "idle"

\* the step of init() that follows a step that returned
InitNext(step) ==
    CASE step = "setupScene" -> "createObjects"
      [] step = "createObjects" -> "animate"
      [] OTHER -> "idle"

\* init() with each step wrapped in a try/catch that goes on
PropagateSwallowed(step, f) ==
    CASE step = "setupScene" -> "createObjects"
      [] step = "createObjects" -> "animate"
      [] OTHER -> "idle"

\* where the script is after a step of init() that threw at its call f
\* (0: it returned): init(), the constructor and the onload handler catch
\* nothing, so a throw ends the task
Propagate(step, f) == IF f = 0 THEN InitNext(step) ELSE "idle"

\* ------------------------------------------------------------------- Init

Init ==
    /\ innerWidth \in WinSizes
    /\ innerHeight \in WinSizes
    /\ devicePixelRatio \in PixelRatios
    /\ pc = "loading"
    /\ camera = NULL
    /\ scene = NULL
    /\ renderer = NULL
    /\ cube = NULL
    /\ body = <<>>
    /\ rafPending = 0
    /\ scheduled = 0
    /\ frames = 0
    /\ renderLog = <<>>
    /\ uncaught = {}

\* ---------------------------------------------------------------- actions

\* The host resizes the window; no handler of the page listens.
Resize ==
    /\ pc \in {"loading", "idle"}
    /\ \E w \in WinSizes, h \in WinSizes :
          /\ <<w, h>> # <<innerWidth, innerHeight>>
          /\ innerWidth' = w
          /\ innerHeight' = h
    /\ UNCHANGED <<devicePixelRatio, pc, handles, body, rafPending, scheduled,
                   frames, renderLog, uncaught>>

\* window.onload fires: new App() runs the constructor up to this.init().
Onload ==
    /\ pc = "loading"
    /\ camera' = NULL
    /\ scene' = NULL
    /\ renderer' = NULL
    /\ cube' = NULL
    /\ pc' = "setupScene"
    /\ UNCHANGED <<window, body, rafPending, scheduled, frames, renderLog,
                   uncaught>>

\* setupScene(), throwing at its call f (0: it returns).
SetupScene(f) ==
    /\ pc = "setupScene"
    /\ camera' = IF Done(f, 1) THEN NewCamera(innerWidth, innerHeight)
                               ELSE camera
    /\ scene' =
          IF Done(f, 2)
          THEN LET s == [background |-> IF Done(f, 3) THEN Black ELSE NULL,
                         children |-> <<>>]
               IN  IF Done(f, 4) THEN SceneAdd(s, "camera") ELSE s
          ELSE scene
    /\ renderer' =
          IF Done(f, 5)
          THEN NewRenderer(innerWidth, innerHeight, devicePixelRatio, f)
          ELSE renderer
    /\ body' = IF Done(f, 9) THEN Append(body, CanvasId) ELSE body
    /\ pc' = Propagate("setupScene", f)
    /\ uncaught' = IF f = 0 THEN uncaught ELSE uncaught \cup {"setupScene"}
    /\ UNCHANGED <<window, cube, rafPending, scheduled, frames, renderLog>>

\* createObjects(), throwing at its call f (0: it returns).  With no scene,
\* this.scene.add is a TypeError whatever the library does.
CreateObjects(f) ==
    LET g == IF scene = NULL /\ Done(f, 5) THEN 5 ELSE f
    IN  /\ pc = "createObjects"
        /\ cube' = IF Done(g, 3)
                   THEN NewCube(innerWidth, innerHeight, Done(g, 4))
                   ELSE cube
        /\ scene' = IF Done(g, 5) THEN SceneAdd(scene, "cube") ELSE scene
        /\ pc' = Propagate("createObjects", g)
        /\ uncaught' = IF g = 0 THEN uncaught
                                ELSE uncaught \cup {"createObjects"}
        /\ UNCHANGED <<window, camera, renderer, body, rafPending, scheduled,
                       frames, renderLog>>

\* animate() rendering before it rotates
AnimateRenderFirst(q, renderFails) ==
    /\ rafPending' = RequestAnimationFrame(q)
    /\ scheduled' = scheduled + 1
    /\ frames' = frames + 1
    /\ cube' = IF cube = NULL \/ renderer = NULL \/ renderFails
               THEN cube ELSE Rotate(cube)
    /\ renderLog' =
          IF cube = NULL \/ renderer = NULL
          THEN renderLog
          ELSE Append(renderLog, [x |-> cube.rotation.x,
                                  y |-> cube.rotation.y,
                                  ok |-> ~renderFails])
    /\ uncaught' = IF cube = NULL \/ renderer = NULL \/ renderFails
                   THEN uncaught \cup {"animate"}
                   ELSE uncaught
    /\ UNCHANGED <<window, camera, scene, renderer, body>>

\* animate() requesting the next frame last, after rotating and rendering
AnimateRequestLast(q, renderFails) ==
    /\ rafPending' = IF cube = NULL \/ renderer = NULL \/ renderFails
                     THEN q ELSE RequestAnimationFrame(q)
    /\ scheduled' = IF cube = NULL \/ renderer = NULL \/ renderFails
                    THEN scheduled ELSE scheduled + 1
    /\ frames' = frames + 1
    /\ cube' = IF cube = NULL THEN cube ELSE Rotate(cube)
    /\ renderLog' =
          IF cube = NULL \/ renderer = NULL
          THEN renderLog
          ELSE Append(renderLog, [x |-> cube'.rotation.x,
                                  y |-> cube'.rotation.y,
                                  ok |-> ~renderFails])
    /\ uncaught' = IF cube = NULL \/ renderer = NULL \/ renderFails
                   THEN uncaught \cup {"animate"}
                   ELSE uncaught
    /\ UNCHANGED <<window, camera, scene, renderer, body>>

\* animate() entered with q callbacks pending; renderer.render throws iff
\* renderFails.  The next callback is requested first; a null cube or a null
\* renderer is a TypeError at the statement that dereferences it.
Animate(q, renderFails) ==
    /\ rafPending' = RequestAnimationFrame(q)
    /\ scheduled' = scheduled + 1
    /\ frames' = frames + 1
    /\ cube' = IF cube = NULL THEN cube ELSE Rotate(cube)
    /\ renderLog' =
          IF cube = NULL \/ renderer = NULL
          THEN renderLog
          ELSE Append(renderLog, [x |-> cube'.rotation.x,
                                  y |-> cube'.rotation.y,
                                  ok |-> ~renderFails])
    /\ uncaught' = IF cube = NULL \/ renderer = NULL \/ renderFails
                   THEN uncaught \cup {"animate"}
                   ELSE uncaught
    /\ UNCHANGED <<window, camera, scene, renderer, body>>

\* init() calls animate() for the first frame.
InitAnimate(renderFails) ==
    /\ pc = "animate"
    /\ Animate(rafPending, renderFails)
    /\ pc' = InitNext("animate")

\* The host invokes one pending repaint callback, which calls animate().
FrameCallback(renderFails) ==
    /\ pc = "idle"
    /\ rafPending > 0
    /\ frames < MaxFrames
    /\ Animate(rafPending - 1, renderFails)
    /\ pc' = pc

\* ---------------------------------------------------------- specifications

SetupSceneReturns == SetupScene(0)
SetupSceneThrows == \E f \in 1..SetupCalls : SetupScene(f)
CreateObjectsReturns == CreateObjects(0)
CreateObjectsThrows == \E f \in 1..CreateCalls : CreateObjects(f)
InitAnimateReturns == InitAnimate(FALSE)
InitAnimateThrows == InitAnimate(TRUE)
FrameReturns == FrameCallback(FALSE)
FrameThrows == FrameCallback(TRUE)
Frame == FrameReturns \/ FrameThrows

\* every call succeeds
NextOK ==
    \/ Resize
    \/ Onload
    \/ SetupSceneReturns
    \/ CreateObjectsReturns
    \/ InitAnimateReturns
    \/ FrameReturns

Next ==
    \/ NextOK
    \/ SetupSceneThrows
    \/ CreateObjectsThrows
    \/ InitAnimateThrows
    \/ FrameThrows

\* any call may throw; the host may stop repainting
Spec == Init /\ [][Next]_vars

\* any call may throw; the host invokes every pending repaint callback
FairSpec == Init /\ [][Next]_vars /\ WF_vars(Frame)

\* no call throws; the host invokes every pending repaint callback
FairSpecOK == Init /\ [][NextOK]_vars /\ WF_vars(FrameReturns)

\* -------------------------------------------------------------- properties

\* setupScene has returned
SetupReturned ==
    \/ pc \in {"createObjects", "animate"}
    \/ pc = "idle" /\ "setupScene" \notin uncaught

\* createObjects has returned
CreateReturned ==
    \/ pc = "animate"
    \/ pc = "idle" /\ uncaught \cap {"setupScene", "createObjects"} = {}

\* a step of init() threw
InitFailed == uncaught \cap {"setupScene", "createObjects"} # {}

\* the step is an execution of animate()
IsFrame == frames' # frames

\* C1: each execution of animate() adds the same constant RotStep to
\* rotation.x and to rotation.y and nothing else changes them: after k
\* executions both angles are k increments and equal, and a step either
\* leaves both angles alone or is a frame that adds RotStep to each.
RotationCountsFrames ==
    /\ [](cube # NULL => /\ cube.rotation.x = frames * RotStep
                         /\ cube.rotation.y = frames * RotStep)
    /\ [][cube # NULL =>
            /\ cube' # NULL
            /\ \/ /\ ~IsFrame
                  /\ cube'.rotation = cube.rotation
               \/ /\ frames' = frames + 1
                  /\ cube'.rotation.x = cube.rotation.x + RotStep
                  /\ cube'.rotation.y = cube.rotation.y + RotStep]_vars

RotatedTwice ==
    /\ cube # NULL
    /\ frames = 2
    /\ cube.rotation = [x |-> 2 * RotStep, y |-> 2 * RotStep]

\* C2: the step in which setupScene returns sizes the renderer to the
\* window's inner width and height of that moment and appends its canvas to
\* the document body; the canvas is in the body at most once at any time,
\* exactly once from the return of setupScene on, and before any render call.
CanvasWindowSized ==
    /\ [](/\ Len(body) <= 1
          /\ SetupReturned => body = <<CanvasId>>
          /\ renderLog # <<>> => body = <<CanvasId>>)
    /\ [][~SetupReturned /\ SetupReturned' =>
            /\ renderer'.width = innerWidth
            /\ renderer'.height = innerHeight
            /\ renderer'.domElement.id = CanvasId
            /\ body = <<>>
            /\ body' = <<CanvasId>>
            /\ renderLog' = <<>>]_vars

CanvasCreatedTall ==
    /\ pc = "createObjects"
    /\ renderer.width = 1
    /\ renderer.height = 2
    /\ body = <<CanvasId>>
    /\ renderLog = <<>>

\* C3: when no call throws and the host invokes every pending repaint
\* callback, then from the first animate() on a callback is always pending
\* and, for every n up to MaxFrames, animate() has eventually run, rotated
\* and rendered at least n times.
LoopNeverStops ==
    /\ [](frames >= 1 => rafPending >= 1)
    /\ \A n \in 1..MaxFrames :
          (frames >= 1) ~> (/\ frames >= n
                            /\ cube.rotation.x >= n * RotStep
                            /\ Len(SelectSeq(renderLog, LAMBDA r : r.ok)) >= n)

LoopRanToBound ==
    /\ frames = MaxFrames
    /\ rafPending = 1
    /\ Len(SelectSeq(renderLog, LAMBDA r : r.ok)) = MaxFrames

\* C4: the camera bounds, the renderer size and the cube position come from
\* the one pair of window dimensions read during initialization and no step
\* changes them afterwards, a resize of the window included; a frame leaves
\* the window, the camera, the scene, the renderer, the document body and
\* all of the cube but its rotation unchanged.
NoResizing ==
    /\ [](/\ SetupReturned => /\ camera.right = renderer.width
                              /\ camera.bottom = renderer.height
                              /\ camera.left = 0
                              /\ camera.top = 0
          /\ CreateReturned => cube.position = <<Half(renderer.width),
                                                 Half(renderer.height),
                                                 Half(0)>>)
    /\ [][/\ camera # NULL => camera' = camera
          /\ renderer # NULL => renderer' = renderer
          /\ cube # NULL => /\ cube' # NULL
                            /\ cube'.position = cube.position
          /\ IsFrame => /\ UNCHANGED <<window, camera, scene, renderer, body>>
                        /\ cube' = [cube EXCEPT !.rotation = cube'.rotation]
         ]_vars

ResizedAfterSetup ==
    /\ frames >= 2
    /\ innerWidth # renderer.width
    /\ innerWidth # camera.right
    /\ innerHeight # renderer.height
    /\ cube.position[1] # Half(innerWidth)

\* C5: initialization runs once, after the load event, in the order
\* setupScene, createObjects, animate: nothing exists or is scheduled before
\* the load event, setupScene runs with no frame begun, createObjects runs
\* with the camera, scene and renderer set up, and whenever a frame has been
\* begun, scheduled or rendered all four handles are non-null and the cube
\* is a child of the scene.
InitSequential ==
    /\ [](/\ pc = "loading" =>
                /\ handles = <<NULL, NULL, NULL, NULL>>
                /\ body = <<>>
          /\ pc \in {"loading", "setupScene", "createObjects", "animate"} =>
                /\ frames = 0
                /\ scheduled = 0
                /\ rafPending = 0
                /\ renderLog = <<>>
                /\ uncaught = {}
          /\ pc = "setupScene" => cube = NULL
          /\ pc = "createObjects" =>
                /\ camera # NULL /\ scene # NULL /\ renderer # NULL
                /\ cube = NULL
                /\ scene.children = <<"camera">>
                /\ body = <<CanvasId>>
          /\ (pc = "animate" \/ frames >= 1 \/ scheduled >= 1
                \/ rafPending >= 1 \/ renderLog # <<>>) =>
                /\ camera # NULL /\ scene # NULL /\ renderer # NULL
                /\ cube # NULL
                /\ \E i \in 1..Len(scene.children) : scene.children[i] = "cube"
                /\ body = <<CanvasId>>)
    /\ [][pc' # pc =>
            <<pc, pc'>> \in {<<"loading", "setupScene">>,
                             <<"setupScene", "createObjects">>,
                             <<"setupScene", "idle">>,
                             <<"createObjects", "animate">>,
                             <<"createObjects", "idle">>,
                             <<"animate", "idle">>}]_vars

FirstFrameAfterInit ==
    /\ pc = "idle"
    /\ frames = 1
    /\ Len(renderLog) = 1
    /\ cube # NULL

\* C6: every execution of animate() issues one render call, after its
\* rotation: the k-th render call ever issued draws the cube with k
\* increments on both angles, so the render calls show 1, 2, 3, ...
\* increments with none missing or repeated and never the cube unrotated.
RenderAfterRotate ==
    /\ Len(renderLog) = frames
    /\ \A k \in 1..Len(renderLog) :
          /\ renderLog[k].x = k * RotStep
          /\ renderLog[k].y = k * RotStep

ThreeRenders ==
    /\ Len(renderLog) = 3
    /\ renderLog[1].x = RotStep
    /\ renderLog[3].x = 3 * RotStep

\* C7: from the return of createObjects on, the scene's children are the
\* camera and the cube, once each, and no step changes the scene, the
\* camera or the renderer or replaces the cube (only its rotation changes).
SceneGraphFixed ==
    /\ [](CreateReturned => /\ scene.children = <<"camera", "cube">>
                            /\ camera # NULL
                            /\ renderer # NULL
                            /\ cube # NULL)
    /\ [][CreateReturned =>
            /\ CreateReturned'
            /\ scene' = scene
            /\ camera' = camera
            /\ renderer' = renderer
            /\ cube' = [cube EXCEPT !.rotation = cube'.rotation]]_vars

SceneAfterFrames ==
    /\ frames >= 2
    /\ scene.children = <<"camera", "cube">>
    /\ cube.rotation.x > 0

\* C8: once a call of setupScene or createObjects has thrown, the exception
\* has escaped, the script is idle, animate() has never run, no repaint
\* callback was ever scheduled, no render call was issued, the step after
\* the failed one has left no trace, and no later step changes anything of
\* the program's state: setup is not retried.
InitFailureIsFinal ==
    /\ [](InitFailed =>
            /\ pc = "idle"
            /\ frames = 0
            /\ scheduled = 0
            /\ rafPending = 0
            /\ renderLog = <<>>
            /\ "animate" \notin uncaught
            /\ Cardinality(uncaught) = 1
            /\ "setupScene" \in uncaught => cube = NULL /\ body = <<>>
            /\ "createObjects" \in uncaught =>
                  \A i \in 1..Len(scene.children) : scene.children[i] # "cube")
    /\ [][InitFailed => UNCHANGED <<pc, handles, body, rafPending, scheduled,
                                    frames, renderLog, uncaught>>]_vars

SetupFailedHalfway ==
    /\ "setupScene" \in uncaught
    /\ camera # NULL
    /\ scene # NULL
    /\ renderer = NULL
    /\ pc = "idle"

\* C9: every execution of animate() schedules one repaint callback and is
\* entered either from init() or from a pending callback, which it uses up:
\* at most one callback is pending at any time, as many callbacks have been
\* scheduled as executions of animate() begun, and one step runs at most
\* one frame.
OneCallbackPending ==
    /\ [](/\ rafPending <= 1
          /\ scheduled = frames
          /\ frames >= 1 => rafPending = 1)
    /\ [][IsFrame =>
            /\ frames' = frames + 1
            /\ scheduled' = scheduled + 1
            /\ \/ pc = "animate" /\ frames = 0 /\ rafPending = 0
               \/ pc = "idle" /\ rafPending = 1
            /\ rafPending' = 1
            /\ cube'.rotation.x = cube.rotation.x + RotStep]_vars

SecondFramePending ==
    /\ frames = 2
    /\ scheduled = 2
    /\ rafPending = 1

\* C10: a throw of renderer.render does not stop the loop: in the step in
\* which a render call throws, the next callback is pending afterwards and
\* the frame's increment is applied; and when the host invokes every pending
\* callback, a k-th frame whose render threw is followed by a (k+1)-th frame
\* that brings the rotation to k+1 increments.
RenderFailureKeepsLoop ==
    /\ [][(/\ Len(renderLog') = Len(renderLog) + 1
           /\ ~renderLog'[Len(renderLog')].ok) =>
            /\ rafPending' = 1
            /\ scheduled' = scheduled + 1
            /\ cube'.rotation.x = cube.rotation.x + RotStep
            /\ cube'.rotation.y = cube.rotation.y + RotStep]_vars
    /\ \A k \in 1..(MaxFrames - 1) :
          (/\ Len(renderLog) = k /\ ~renderLog[k].ok)
             ~> (/\ frames = k + 1
                 /\ cube.rotation.x = (k + 1) * RotStep
                 /\ cube.rotation.y = (k + 1) * RotStep)

FrameAfterFailedRender ==
    /\ Len(renderLog) = 2
    /\ ~renderLog[1].ok
    /\ renderLog[2].ok
    /\ cube.rotation.x = 2 * RotStep

====
